---- MODULE Spec2Model ----
(***************************************************************************)
(* Punch-card data tool: the ETL of "01 資料整理" (punch + roster ->        *)
(* integrated_punch), the night-meal evaluators of "02 夜點清單" /          *)
(* "夜點html.py", and the timestamp formatters of the record queries.       *)
(*                                                                         *)
(* Text values are TLA+ strings (Len, SubSeq and \o act on them as on the  *)
(* program's strings).  Column names are transliterated:                   *)
(*   公務帳號 account, 卡號 card_id, 姓名 name, 班別 shift_class,            *)
(*   刷卡日期 date, 刷卡時間 time / times, 序號 seq.                         *)
(***************************************************************************)
EXTENDS Integers, Sequences, FiniteSets, TLC

(* SQL NULL / Python None / pandas NaN: a marker no text value equals.     *)
NULL == "<NULL>"

(* ---------------------------------------------------------------------- *)
(* Text primitives                                                         *)
(* ---------------------------------------------------------------------- *)

Min(a, b) == IF a < b THEN a ELSE b

Char(s, i) == SubSeq(s, i, i)

Digits == {"0", "1", "2", "3", "4", "5", "6", "7", "8", "9"}

DigitVal(c) ==
    CASE c = "0" -> 0 [] c = "1" -> 1 [] c = "2" -> 2 [] c = "3" -> 3
      [] c = "4" -> 4 [] c = "5" -> 5 [] c = "6" -> 6 [] c = "7" -> 7
      [] c = "8" -> 8 [] c = "9" -> 9

AllDigits(s) == \A i \in 1..Len(s) : Char(s, i) \in Digits

HasColon(s) == \E i \in 1..Len(s) : Char(s, i) = ":"

(* SQLite SUBSTR(X, Y, Z) for Y >= 1: the Z characters from the Y-th,     *)
(* cut at the end of X.                                                    *)
SUBSTR(s, y, z) ==
    LET hi == Min(y + z - 1, Len(s))
    IN  IF y > hi THEN "" ELSE SubSeq(s, y, hi)

(* Python s[a:b] for 0 <= a <= b.                                          *)
Slice(s, a, b) == SUBSTR(s, a + 1, b - a)

(* Value of the longest prefix of digits of s from position i on.          *)
RECURSIVE DigitPrefix(_, _, _)
DigitPrefix(s, i, acc) ==
    IF i <= Len(s) /\ Char(s, i) \in Digits
    THEN DigitPrefix(s, i + 1, 10 * acc + DigitVal(Char(s, i)))
    ELSE acc

RECURSIVE SkipSpaces(_, _)
SkipSpaces(s, i) ==
    IF i <= Len(s) /\ Char(s, i) = " " THEN SkipSpaces(s, i + 1) ELSE i

(* SQLite CAST(text AS INTEGER): leading spaces skipped, an optional sign, *)
(* then the longest prefix of digits; 0 when there is none.                *)
CastInteger(s) ==
    LET i == SkipSpaces(s, 1)
    IN  IF i <= Len(s) /\ Char(s, i) = "-" THEN 0 - DigitPrefix(s, i + 1, 0)
        ELSE IF i <= Len(s) /\ Char(s, i) = "+" THEN DigitPrefix(s, i + 1, 0)
        ELSE DigitPrefix(s, i, 0)

(* Python str.strip() (blanks).                                            *)
RECURSIVE Strip(_)
Strip(s) ==
    IF Len(s) = 0 THEN s
    ELSE IF Char(s, 1) = " " THEN Strip(SubSeq(s, 2, Len(s)))
    ELSE IF Char(s, Len(s)) = " " THEN Strip(SubSeq(s, 1, Len(s) - 1))
    ELSE s

(* ---------------------------------------------------------------------- *)
(* Date/time normalization                                                 *)
(* ---------------------------------------------------------------------- *)

ROC_OFFSET == 1911

(* UPDATE punch SET date = CASE WHEN LENGTH(date) = 7 THEN ... END         *)
ConvertDateNoOffset(d) ==
    IF d # NULL /\ Len(d) = 7
    THEN ToString(CastInteger(SUBSTR(d, 1, 3))) \o "-"
           \o SUBSTR(d, 4, 2) \o "-" \o SUBSTR(d, 6, 2)
    ELSE d

ConvertDate(d) ==
    IF d # NULL /\ Len(d) = 7
    THEN ToString(CastInteger(SUBSTR(d, 1, 3)) + ROC_OFFSET) \o "-"
           \o SUBSTR(d, 4, 2) \o "-" \o SUBSTR(d, 6, 2)
    ELSE d

(* UPDATE punch SET time = CASE WHEN LENGTH(time) = 4 THEN ... END         *)
ConvertTimeNoSeconds(t) ==
    IF t # NULL /\ Len(t) = 4
    THEN SUBSTR(t, 1, 2) \o ":" \o SUBSTR(t, 3, 2)
    ELSE t

ConvertTimeAtLeast4(t) ==
    IF t # NULL /\ Len(t) >= 4
    THEN SUBSTR(t, 1, 2) \o ":" \o SUBSTR(t, 3, 2) \o ":00"
    ELSE t

ConvertTime(t) ==
    IF t # NULL /\ Len(t) = 4
    THEN SUBSTR(t, 1, 2) \o ":" \o SUBSTR(t, 3, 2) \o ":00"
    ELSE t

(* f"{ts[:2]}:{ts[2:4]}:{ts[4:6]}"                                         *)
Colonize(ts) == Slice(ts, 0, 2) \o ":" \o Slice(ts, 2, 4) \o ":" \o Slice(ts, 4, 6)

(* format_timestamp of "03 打卡紀錄查詢htm": ':' is tested before len 6.    *)
format_timestamp(ts) ==
    IF ts = NULL THEN NULL
    ELSE LET s == Strip(ts)
         IN  IF Len(s) = 0 THEN NULL
             ELSE IF HasColon(s) THEN s
             ELSE IF Len(s) = 6 THEN Colonize(s)
             ELSE s

(* format_timestamp of "09 打卡紀錄完整查詢": len 6 is tested first.        *)
format_timestamp_09(ts) ==
    IF ts = NULL THEN NULL
    ELSE LET s == Strip(ts)
         IN  IF Len(s) = 0 THEN NULL
             ELSE IF Len(s) = 6 THEN Colonize(s)
             ELSE s

(* check_night_meal, the string handed to strptime.                        *)
CompareStringAsStored(t) == t

CompareString(t) == IF Len(t) = 6 THEN Colonize(t) ELSE t

(* datetime.strptime(s, '%H:%M:%S').time(), as seconds since midnight;     *)
(* ValueError when s is not H:M:S with 1-2 digit fields, H <= 23, M <= 59  *)
(* and S <= 59 (the pattern admits S = 60, 61, which datetime rejects).    *)
ValueError == -1

ColonPos(s) == {i \in 1..Len(s) : Char(s, i) = ":"}

FieldOk(f, hi) == Len(f) \in {1, 2} /\ AllDigits(f) /\ DigitPrefix(f, 1, 0) <= hi

strptime_HMS(s) ==
    IF Cardinality(ColonPos(s)) # 2 THEN ValueError
    ELSE LET p1 == CHOOSE i \in ColonPos(s) : \A j \in ColonPos(s) : i <= j
             p2 == CHOOSE i \in ColonPos(s) : \A j \in ColonPos(s) : j <= i
             h  == SubSeq(s, 1, p1 - 1)
             m  == SubSeq(s, p1 + 1, p2 - 1)
             x  == SubSeq(s, p2 + 1, Len(s))
         IN  IF FieldOk(h, 23) /\ FieldOk(m, 59) /\ FieldOk(x, 59)
             THEN 3600 * DigitPrefix(h, 1, 0) + 60 * DigitPrefix(m, 1, 0)
                    + DigitPrefix(x, 1, 0)
             ELSE ValueError

(* datetime.strptime(d, '%Y-%m-%d'): a 4-digit year, a month 1..12 and a   *)
(* day of that month, each of 1-2 digits.                                  *)
DashPos(s) == {i \in 1..Len(s) : Char(s, i) = "-"}

DaysIn(y, m) ==
    IF m \in {4, 6, 9, 11} THEN 30
    ELSE IF m # 2 THEN 31
    ELSE IF (y % 4 = 0 /\ y % 100 # 0) \/ y % 400 = 0 THEN 29
    ELSE 28

DateParts(d) ==
    LET p1 == CHOOSE i \in DashPos(d) : \A j \in DashPos(d) : i <= j
        p2 == CHOOSE i \in DashPos(d) : \A j \in DashPos(d) : j <= i
    IN  [y |-> SubSeq(d, 1, p1 - 1), m |-> SubSeq(d, p1 + 1, p2 - 1),
         d |-> SubSeq(d, p2 + 1, Len(d))]

strptime_YMD_ok(d) ==
    /\ d # NULL
    /\ Cardinality(DashPos(d)) = 2
    /\ LET f == DateParts(d)
           y == DigitPrefix(f.y, 1, 0)
           m == DigitPrefix(f.m, 1, 0)
           x == DigitPrefix(f.d, 1, 0)
       IN  /\ Len(f.y) = 4 /\ AllDigits(f.y)
           /\ Len(f.m) \in {1, 2} /\ AllDigits(f.m) /\ m \in 1..12
           /\ Len(f.d) \in {1, 2} /\ AllDigits(f.d) /\ x \in 1..DaysIn(y, m)

(* f"{n:02}"                                                               *)
TwoDigits(n) == IF n < 10 THEN "0" \o ToString(n) ELSE ToString(n)

(* month and day of a record: fixed offsets in "02 夜點清單" / "02 夜點清算", *)
(* the parsed date in "夜點html.py" / "02 新夜點清單".                        *)
MonthOf(variant, d) ==
    IF variant = "slice" THEN Slice(d, 5, 7)
    ELSE TwoDigits(DigitPrefix(DateParts(d).m, 1, 0))

DayOf(variant, d) ==
    IF variant = "slice" THEN Slice(d, 8, 10)
    ELSE TwoDigits(DigitPrefix(DateParts(d).d, 1, 0))

(* ---------------------------------------------------------------------- *)
(* Eligibility of one row                                                  *)
(* ---------------------------------------------------------------------- *)

(* parse_time('22:00:00'), the threshold of every rule                     *)
night_meal_threshold == strptime_HMS("22:00:00")

(* for col in time_columns[::-1]: the first column that is not null;       *)
(* 0 when every column is null                                             *)
FirstCol(times) ==
    IF \A i \in 1..Len(times) : times[i] = NULL THEN 0
    ELSE CHOOSE i \in 1..Len(times) :
            times[i] # NULL /\ \A j \in 1..(i - 1) : times[j] = NULL

LastCol(times) ==
    IF \A i \in 1..Len(times) : times[i] = NULL THEN 0
    ELSE CHOOSE i \in 1..Len(times) :
            times[i] # NULL /\ \A j \in (i + 1)..Len(times) : times[j] = NULL

(* the string check_night_meal parses (NULL when it parses none)           *)
LastTimeStr(times) ==
    IF LastCol(times) = 0 THEN NULL ELSE CompareString(times[LastCol(times)])

(* check_night_meal raises ValueError                                      *)
check_raises(times) ==
    LastCol(times) # 0 /\ strptime_HMS(LastTimeStr(times)) = ValueError

LaterOrEqual(t, threshold) == t >= threshold

Later(t, threshold) == t > threshold

(* check_night_meal returns True                                           *)
check_night_meal(times, threshold) ==
    /\ LastCol(times) # 0
    /\ Later(strptime_HMS(LastTimeStr(times)), threshold)

(* ---------------------------------------------------------------------- *)
(* Ordering of text (SQLite BINARY collation, NULL first); ASCII lists the  *)
(* characters of the model's texts in code order                           *)
(* ---------------------------------------------------------------------- *)

ASCII == " +,-./0123456789:<=>ABCDEFGHIJKLMNOPQRSTUVWXYZ_abcdefghijklmnopqrstuvwxyz"

Ord(c) == CHOOSE i \in 1..Len(ASCII) : Char(ASCII, i) = c

RECURSIVE StrCmp(_, _, _)
StrCmp(a, b, i) ==
    IF i > Len(a) /\ i > Len(b) THEN 0
    ELSE IF i > Len(a) THEN -1
    ELSE IF i > Len(b) THEN 1
    ELSE IF Char(a, i) = Char(b, i) THEN StrCmp(a, b, i + 1)
    ELSE IF Ord(Char(a, i)) < Ord(Char(b, i)) THEN -1 ELSE 1

TextCmp(a, b) ==
    IF a = NULL /\ b = NULL THEN 0
    ELSE IF a = NULL THEN -1
    ELSE IF b = NULL THEN 1
    ELSE StrCmp(a, b, 1)

RECURSIVE KeyCmp(_, _)
KeyCmp(k1, k2) ==
    IF Len(k1) = 0 THEN 0
    ELSE IF TextCmp(Head(k1), Head(k2)) # 0 THEN TextCmp(Head(k1), Head(k2))
    ELSE KeyCmp(Tail(k1), Tail(k2))

(* the sequences that list the members of the index set I of table t once  *)
(* each, in an order that is ascending by key; keys[i] is the key of t[i]  *)
OrderedBy(t, I, keys) ==
    {[j \in 1..Cardinality(I) |-> t[f[j]]] :
        f \in {g \in [1..Cardinality(I) -> I] :
                  /\ \A a, b \in 1..Cardinality(I) : a # b => g[a] # g[b]
                  /\ \A a \in 1..(Cardinality(I) - 1) :
                        KeyCmp(keys[g[a]], keys[g[a + 1]]) <= 0}}

(* ---------------------------------------------------------------------- *)
(* The evaluator's queries                                                 *)
(* ---------------------------------------------------------------------- *)

(* SELECT DISTINCT shift_class FROM integrated_punch, as dict keys: the    *)
(* table is scanned in row order and a class is listed where it is first   *)
(* met                                                                     *)
RuleOrder(t) ==
    LET first == {i \in DOMAIN t :
                     \A k \in 1..(i - 1) : t[k].shift_class # t[i].shift_class}
        pick  == CHOOSE f \in [1..Cardinality(first) -> first] :
                     \A a, b \in 1..Cardinality(first) : a < b => f[a] < f[b]
    IN  [j \in 1..Cardinality(first) |-> t[pick[j]].shift_class]

(* f"... WHERE ip.shift_class = '{class_name}'": None is written 'None'    *)
ClassLiteral(c) == IF c = NULL THEN "None" ELSE c

EvalKeyNoCard(r) == <<r.shift_class, r.account, r.name, r.date>>

EvalKey(r) == <<r.card_id, r.shift_class, r.account, r.name, r.date>>

(* a class query that compares with the rule's key itself, so that the     *)
(* rule of the null class selects the rows of null class                   *)
ClassRowsByKey(t, c) ==
    OrderedBy(t, {i \in DOMAIN t : t[i].shift_class = c},
                 [i \in DOMAIN t |-> EvalKey(t[i])])

(* data of process_night_meal_data: the rows of the class, ORDER BY        *)
(* card_id, shift_class, account, name, date; ties in the engine's order   *)
ClassRows(t, c) ==
    OrderedBy(t, {i \in DOMAIN t : t[i].shift_class # NULL
                                   /\ t[i].shift_class = ClassLiteral(c)},
                 [i \in DOMAIN t |-> EvalKey(t[i])])

(* ---------------------------------------------------------------------- *)
(* The build: cleaning, normalization pass, integration                    *)
(* ---------------------------------------------------------------------- *)

(* a filter that lets every row through                                    *)
AnySeq(v) == TRUE

(* pd.to_numeric(seq, errors='coerce').notnull(): an optionally signed run *)
(* of digits is a number; an empty cell or other text is not               *)
ToNumericOk(v) ==
    /\ v # NULL
    /\ LET body == IF Len(v) > 0 /\ Char(v, 1) \in {"-", "+"}
                   THEN SubSeq(v, 2, Len(v)) ELSE v
       IN  Len(body) > 0 /\ AllDigits(body)

(* astype(str): an empty cell becomes the text "nan"                       *)
StrOf(v) == IF v = NULL THEN "nan" ELSE v

(* clean_and_store_excel, one sheet: when the sheet has a seq column, the  *)
(* rows whose seq is numeric; date and time as text                        *)
clean_sheet(rows) ==
    LET kept == SelectSeq(rows,
                    LAMBDA r : "seq" \in DOMAIN r => ToNumericOk(r.seq))
    IN  [i \in 1..Len(kept) |->
            [kept[i] EXCEPT !.date = StrOf(@), !.time = StrOf(@)]]

(* a pass that leaves the table as loaded                                 *)
NoConversion(t) == t

(* convert_date_time_format: both UPDATEs over every row of punch          *)
convert_date_time_format(t) ==
    [i \in 1..Len(t) |->
        [t[i] EXCEPT !.date = ConvertDate(@), !.time = ConvertTime(@)]]

(* punch LEFT JOIN shift_class ON account: punch rows in table order, each *)
(* with its roster rows in table order, or with nulls when it has none     *)
NoRoster == [account |-> NULL, card_id |-> NULL, name |-> NULL, shift_class |-> NULL]

JoinedRow(p, r) ==
    [account |-> p.account, date |-> p.date, time |-> p.time,
     card_id |-> r.card_id, name |-> r.name, shift_class |-> r.shift_class]

InnerJoinRows(p, sc) ==
    LET m == SelectSeq(sc, LAMBDA r : r.account # NULL /\ p.account # NULL
                                      /\ r.account = p.account)
    IN  [k \in 1..Len(m) |-> JoinedRow(p, m[k])]

JoinRows(p, sc) ==
    LET m == SelectSeq(sc, LAMBDA r : r.account # NULL /\ p.account # NULL
                                      /\ r.account = p.account)
    IN  IF Len(m) = 0 THEN <<JoinedRow(p, NoRoster)>>
        ELSE [k \in 1..Len(m) |-> JoinedRow(p, m[k])]

RECURSIVE LeftJoin(_, _, _)
LeftJoin(pu, sc, i) ==
    IF i > Len(pu) THEN <<>> ELSE JoinRows(pu[i], sc) \o LeftJoin(pu, sc, i + 1)

(* a grouping that also separates the punches of a group by time          *)
GroupKeyWithTime(j) == <<j.account, j.date, j.shift_class, j.time>>

(* GROUP BY punch.account, punch.date, shift_class.shift_class             *)
GroupKey(j) == <<j.account, j.date, j.shift_class>>

(* GROUP_CONCAT(time): the non-null times of the group's rows, in the      *)
(* order the join yields them, joined by ','; NULL when there is none      *)
RECURSIVE JoinComma(_)
JoinComma(ts) ==
    IF Len(ts) = 1 THEN Head(ts) ELSE Head(ts) \o "," \o JoinComma(Tail(ts))

GROUP_CONCAT(members) ==
    LET ts == SelectSeq([k \in 1..Len(members) |-> members[k].time],
                        LAMBDA t : t # NULL)
    IN  IF Len(ts) = 0 THEN NULL ELSE JoinComma(ts)

(* str.split(','): the parts of a text; a NULL has none                    *)
RECURSIVE SplitFrom(_, _, _)
SplitFrom(s, i, start) ==
    IF i > Len(s) THEN <<SubSeq(s, start, Len(s))>>
    ELSE IF Char(s, i) = "," THEN <<SubSeq(s, start, i - 1)>> \o SplitFrom(s, i + 1, i + 1)
    ELSE SplitFrom(s, i + 1, start)

SplitComma(s) == IF s = NULL THEN <<>> ELSE SplitFrom(s, 1, 1)

Max(S) == IF S = {} THEN 0 ELSE CHOOSE x \in S : \A y \in S : y <= x

(* a padding that puts the nulls first                                     *)
PadLeft(ts, n) ==
    [k \in 1..n |-> IF k <= n - Len(ts) THEN NULL ELSE ts[k - (n - Len(ts))]]

PadRight(ts, n) == [k \in 1..n |-> IF k <= Len(ts) THEN ts[k] ELSE NULL]

(* integrate_data: the tables it can store.  One row per group, in key     *)
(* order; card_id and name are bare columns of the grouped query, taken    *)
(* from some row of the group; the times are split into as many columns    *)
(* as the longest group has.                                               *)
integrate_data(pu, sc) ==
    LET J       == LeftJoin(pu, sc, 1)
        firsts  == {i \in DOMAIN J :
                       \A k \in 1..(i - 1) : GroupKey(J[k]) # GroupKey(J[i])}
        heads   == CHOOSE h \in OrderedBy(J, firsts, [i \in DOMAIN J |-> GroupKey(J[i])]) : TRUE
        n       == Len(heads)
        members(g) == SelectSeq(J, LAMBDA j : GroupKey(j) = GroupKey(heads[g]))
        parts(g)   == SplitComma(GROUP_CONCAT(members(g)))
        width   == Max({Len(parts(g)) : g \in 1..n})
        bare(g) == {<<members(g)[k].card_id, members(g)[k].name>> :
                        k \in 1..Len(members(g))}
        bares   == UNION {bare(g) : g \in 1..n}
    IN  {[g \in 1..n |->
            [account |-> heads[g].account, card_id |-> b[g][1], name |-> b[g][2],
             shift_class |-> heads[g].shift_class, date |-> heads[g].date,
             times |-> PadRight(parts(g), width)]] :
         b \in {c \in [1..n -> bares] : \A g \in 1..n : c[g] \in bare(g)}}

(* ---------------------------------------------------------------------- *)
(* State                                                                   *)
(* ---------------------------------------------------------------------- *)

VARIABLES
    \* the build ("01 資料整理"): its inputs, its position, the database
    punch_book,        \* punch workbook: a sequence of sheets of data rows
    roster_book,       \* roster workbook: a sequence of sheets of rows
    pc,                \* position of main
    sheet_i,           \* index of the next sheet of the workbook being read
    punch,             \* table punch
    shift_class,       \* table shift_class
    integrated_punch,  \* table integrated_punch (rows)
    time_columns,      \* number of time columns of integrated_punch
    file_path_1,       \* TRUE iff the punch workbook exists
    file_path_2,       \* TRUE iff the roster workbook exists
    roster_columns,    \* the columns the roster sheets have
    tables,            \* names of the tables the database file holds
    run,               \* number of the current run of main
    prev,              \* the books and tables as the previous run left them
    \* the evaluator ("02 夜點清單", "夜點html.py")
    epc,               \* position of main / process_all_classes_data
    variant,           \* which script runs: "slice" or "strptime" dates
    rules_dict,        \* class names in dict order
    ci,                \* index of the class being processed
    data,              \* rows of that class, ordered
    ri,                \* index of the next row of data
    processed_dates,   \* <<account, date>> pairs already emitted
    night_meal_data,   \* records of the class so far
    all_data,          \* records of the finished classes
    check,             \* the latest call of check_night_meal: row is its index
                       \* in data, col the column the scan stopped at (0: none),
                       \* last_time_str the text parsed, night_meal_recorded
                       \* the value returned
    \* the normalizer harness
    nkind,   \* "time" or "date" token
    nraw,    \* the raw token
    nfn,     \* the conversion applied so far ("none" before the first)
    napp,    \* how many times it has been applied
    nprev,   \* argument of the latest application
    ncur     \* result of the latest application

inputVars == <<punch_book, roster_book, file_path_1, file_path_2, roster_columns>>

runVars == <<run, prev>>

etlVars == <<inputVars, pc, sheet_i, punch, shift_class, integrated_punch,
             time_columns, tables, runVars>>

evalVars == <<epc, variant, rules_dict, ci, data, ri, processed_dates,
              night_meal_data, all_data, check>>

normVars == <<nkind, nraw, nfn, napp, nprev, ncur>>

vars == <<etlVars, evalVars, normVars>>

NoCheck == [row |-> 0, col |-> 0, last_time_str |-> NULL, night_meal_recorded |-> FALSE]

EvalIdle ==
    /\ epc = "idle"
    /\ variant = "none"
    /\ rules_dict = <<>>
    /\ ci = 0
    /\ data = <<>>
    /\ ri = 0
    /\ processed_dates = {}
    /\ night_meal_data = <<>>
    /\ all_data = <<>>
    /\ check = NoCheck

NormIdle ==
    /\ nkind = "none"
    /\ nraw = NULL
    /\ nfn = "none"
    /\ napp = 0
    /\ nprev = NULL
    /\ ncur = NULL

RosterColumns == {"account", "card_id", "name", "shift_class"}

AllTables == {"punch", "shift_class", "integrated_punch"}

(* what a run leaves behind, for the next run to be compared with          *)
Snapshot(how) ==
    [pc |-> how, punch_book |-> punch_book, roster_book |-> roster_book,
     punch |-> punch, shift_class |-> shift_class,
     integrated_punch |-> integrated_punch, tables |-> tables]

NoPrev ==
    [pc |-> "none", punch_book |-> <<>>, roster_book |-> <<>>, punch |-> <<>>,
     shift_class |-> <<>>, integrated_punch |-> <<>>, tables |-> {}]

(* both workbooks exist, the roster has all its columns, first run         *)
PlainInputs ==
    /\ file_path_1 = TRUE
    /\ file_path_2 = TRUE
    /\ roster_columns = RosterColumns
    /\ run = 1
    /\ prev = NoPrev

EtlIdle ==
    /\ punch_book = <<>>
    /\ roster_book = <<>>
    /\ PlainInputs
    /\ tables = AllTables
    /\ pc = "done"
    /\ sheet_i = 0
    /\ punch = <<>>
    /\ shift_class = <<>>
    /\ integrated_punch = <<>>
    /\ time_columns = 0

(* ---------------------------------------------------------------------- *)
(* Normalizer: every token up to a length, and the shapes of real data     *)
(* ---------------------------------------------------------------------- *)

MaxTimeLen == 8
MaxDateLen == 7
MaxApply == 2

TimeAlphabet == {"0", "2", ":"}
DateAlphabet == {"0", "1", "-"}

RECURSIVE Cat(_)
Cat(f) == IF Len(f) = 0 THEN "" ELSE Head(f) \o Cat(Tail(f))

StringsOver(alphabet, n) ==
    UNION {{Cat(f) : f \in [1..k -> alphabet]} : k \in 0..n}

TimeExamples ==
    {NULL, "0800", "2230", "2200", "220001", "223000", "080000", "8:00",
     "12:3:4", "8:00:0", "22:00:00", "22:00:01", "nan", "None", " 2200"}

DateExamples ==
    {"113-05-20", "1130520", "2024-05-20", "113-01-05", "1130105",
     "99-1-05", "0990105", "1-05-20", "nan"}

TimeTokens == StringsOver(TimeAlphabet, MaxTimeLen) \cup TimeExamples
DateTokens == StringsOver(DateAlphabet, MaxDateLen) \cup DateExamples

NormInit ==
    /\ EtlIdle
    /\ EvalIdle
    /\ \/ nkind = "time" /\ nraw \in TimeTokens
       \/ nkind = "date" /\ nraw \in DateTokens
    /\ nfn = "none"
    /\ napp = 0
    /\ nprev = nraw
    /\ ncur = nraw

NormApply(kind, fn, result) ==
    /\ nkind = kind
    /\ nfn \in {"none", fn}
    /\ napp < MaxApply
    /\ nfn' = fn
    /\ napp' = napp + 1
    /\ nprev' = ncur
    /\ ncur' = result
    /\ UNCHANGED <<nkind, nraw, etlVars, evalVars>>

(* one UPDATE of convert_date_time_format over a stored date / time        *)
NormStoreDate == NormApply("date", "store_date", ConvertDate(ncur))

NormStoreTime == NormApply("time", "store_time", ConvertTime(ncur))

(* the record queries' display of a stored time                            *)
NormFormat03 == NormApply("time", "format_timestamp", format_timestamp(ncur))

NormFormat09 == NormApply("time", "format_timestamp_09", format_timestamp_09(ncur))

(* check_night_meal's rewrite of a non-null stored time before strptime    *)
NormCompare ==
    /\ ncur # NULL
    /\ NormApply("time", "compare", CompareString(ncur))

NormNext ==
    \/ NormStoreDate
    \/ NormStoreTime
    \/ NormFormat03
    \/ NormFormat09
    \/ NormCompare

SpecNorm == NormInit /\ [][NormNext]_vars

(* ---------------------------------------------------------------------- *)
(* Evaluator                                                               *)
(* ---------------------------------------------------------------------- *)

Variants == {"slice", "strptime"}

(* main: create_rules_dict and get_time_columns on the finished database   *)
EvalStart ==
    /\ pc = "done"
    /\ epc = "idle"
    /\ \E v \in Variants : variant' = v
    /\ rules_dict' = RuleOrder(integrated_punch)
    /\ ci' = 1
    /\ epc' = "class"
    /\ UNCHANGED <<data, ri, processed_dates, night_meal_data, all_data,
                   check, etlVars, normVars>>

SharedDates(seen) == seen

(* processed_dates = {} at the start of every process_night_meal_data call *)
FreshDates(seen) == {}

(* process_night_meal_data, up to the loop: the query of one class         *)
ClassStart ==
    /\ epc = "class"
    /\ ci <= Len(rules_dict)
    /\ \E d \in ClassRows(integrated_punch, rules_dict[ci]) : data' = d
    /\ ri' = 1
    /\ processed_dates' = FreshDates(processed_dates)
    /\ night_meal_data' = <<>>
    /\ check' = NoCheck
    /\ epc' = "rows"
    /\ UNCHANGED <<variant, rules_dict, ci, all_data, etlVars, normVars>>

RowReady == epc = "rows" /\ ri <= Len(data)

(* "夜點html.py": except ValueError: continue                              *)
DateSkipped(row) == variant = "strptime" /\ ~strptime_YMD_ok(row.date)

(* [card_no, account, name, month, day], the class process_all_classes_data *)
(* adds to it, and (not in the program's record) the date of its row       *)
Record(row, class_name) ==
    [card_id |-> row.card_id, account |-> row.account, name |-> row.name,
     month |-> MonthOf(variant, row.date), day |-> DayOf(variant, row.date),
     shift_class |-> class_name, date |-> row.date]

Checked(i, times) ==
    [row |-> i, col |-> LastCol(times), last_time_str |-> LastTimeStr(times),
     night_meal_recorded |-> check_night_meal(times, night_meal_threshold)]

AlwaysNew(seen, row) == TRUE

NotYetEmitted(seen, row) == <<row.account, row.date>> \notin seen

RowSkipDate ==
    /\ RowReady
    /\ DateSkipped(data[ri])
    /\ ri' = ri + 1
    /\ UNCHANGED <<epc, variant, rules_dict, ci, data, processed_dates,
                   night_meal_data, all_data, check, etlVars, normVars>>

(* check_night_meal raises: the exception leaves the loops and is logged   *)
(* by main                                                                 *)
RowRaise ==
    /\ RowReady
    /\ ~DateSkipped(data[ri])
    /\ check_raises(data[ri].times)
    /\ check' = [check EXCEPT !.row = ri, !.col = LastCol(data[ri].times),
                              !.last_time_str = LastTimeStr(data[ri].times)]
    /\ epc' = "error"
    /\ UNCHANGED <<variant, rules_dict, ci, data, ri, processed_dates,
                   night_meal_data, all_data, etlVars, normVars>>

RowEmit ==
    /\ RowReady
    /\ ~DateSkipped(data[ri])
    /\ ~check_raises(data[ri].times)
    /\ check_night_meal(data[ri].times, night_meal_threshold)
    /\ NotYetEmitted(processed_dates, data[ri])
    /\ night_meal_data' = Append(night_meal_data, Record(data[ri], rules_dict[ci]))
    /\ processed_dates' = processed_dates \cup {<<data[ri].account, data[ri].date>>}
    /\ check' = Checked(ri, data[ri].times)
    /\ ri' = ri + 1
    /\ UNCHANGED <<epc, variant, rules_dict, ci, data, all_data, etlVars, normVars>>

RowPass ==
    /\ RowReady
    /\ ~DateSkipped(data[ri])
    /\ ~check_raises(data[ri].times)
    /\ ~(/\ check_night_meal(data[ri].times, night_meal_threshold)
         /\ NotYetEmitted(processed_dates, data[ri]))
    /\ check' = Checked(ri, data[ri].times)
    /\ ri' = ri + 1
    /\ UNCHANGED <<epc, variant, rules_dict, ci, data, processed_dates,
                   night_meal_data, all_data, etlVars, normVars>>

(* process_all_classes_data: the class's records join the result           *)
ClassFinish ==
    /\ epc = "rows"
    /\ ri > Len(data)
    /\ all_data' = all_data \o night_meal_data
    /\ ci' = ci + 1
    /\ epc' = "class"
    /\ UNCHANGED <<variant, rules_dict, data, ri, processed_dates,
                   night_meal_data, check, etlVars, normVars>>

EvalFinish ==
    /\ epc = "class"
    /\ ci > Len(rules_dict)
    /\ epc' = "done"
    /\ UNCHANGED <<variant, rules_dict, ci, data, ri, processed_dates,
                   night_meal_data, all_data, check, etlVars, normVars>>

(* output_combined_html: GROUP BY class, card_id, account, name, month    *)
SummaryKey(r) == <<r.shift_class, r.card_id, r.account, r.name, r.month>>

(* the summary rows of the records: COUNT(DISTINCT day) and the days that  *)
(* GROUP_CONCAT(day) lists, one entry per record of the group              *)
MonthlySummary(records) ==
    {LET members == SelectSeq(records, LAMBDA r : SummaryKey(r) = k)
     IN  [key |-> k,
          day_count |-> Cardinality({members[i].day : i \in DOMAIN members}),
          day_list |-> [i \in DOMAIN members |-> members[i].day]] :
        k \in {SummaryKey(records[i]) : i \in DOMAIN records}}

EvalNext ==
    \/ EvalStart
    \/ ClassStart
    \/ RowSkipDate
    \/ RowRaise
    \/ RowEmit
    \/ RowPass
    \/ ClassFinish
    \/ EvalFinish

(* The evaluator on a database it is handed: one row with every shape of   *)
(* time, or a few rows that may repeat an account and a date.              *)
MaxTimeCols == 2
MaxRows == 2

RowTimes ==
    {NULL, "08:00:00", "21:59:59", "22:00:00", "22:00:01", "22:30:00",
     "220000", "220001", "8:00", "nan"}

RowDates == {"2024-01-05", "113-01-05"}

NameOf(account) == IF account = "A1" THEN "Wang" ELSE "Lee"

IntegratedRow(account, card, class, date, times) ==
    [account |-> account, card_id |-> card, name |-> NameOf(account),
     shift_class |-> class, date |-> date, times |-> times]

CardOf(account) == IF account = "A1" THEN "C1" ELSE "C2"

FewRows ==
    {IntegratedRow(a, CardOf(a), k, d, <<t>>) :
        a \in {"A1", "A2"}, k \in {"Early", "Night"},
        d \in {"2024-01-05", "2024-01-06"}, t \in {"08:00:00", "22:30:00"}}

(* one account eligible on the same day of the month in two years, or on  *)
(* two days of one month                                                   *)
YearDates == {"2024-01-05", "2025-01-05", "2024-01-06"}

YearRows ==
    {<<IntegratedRow("A1", "C1", "Early", d1, <<"22:30:00">>),
       IntegratedRow("A1", "C1", "Early", d2, <<"22:30:00">>)>> :
        d1 \in YearDates, d2 \in YearDates}

(* two rows of one class for the same account and date, as a roster that  *)
(* lists the account under two card numbers yields them                    *)
DupRows ==
    {<<IntegratedRow("A1", c1, "Early", "2024-01-05", <<t1>>),
       IntegratedRow("A1", c2, "Early", "2024-01-05", <<t2>>)>> :
        c1 \in {"C1", "C2"}, c2 \in {"C1", "C2"},
        t1 \in {"08:00:00", "22:30:00"}, t2 \in {"08:00:00", "22:30:00"}}

EvalInit ==
    /\ NormIdle
    /\ EvalIdle
    /\ punch_book = <<>>
    /\ roster_book = <<>>
    /\ PlainInputs
    /\ tables = AllTables
    /\ pc = "done"
    /\ sheet_i = 0
    /\ punch = <<>>
    /\ shift_class = <<>>
    /\ \/ \E n \in 0..MaxTimeCols : \E ts \in [1..n -> RowTimes] : \E d \in RowDates :
            /\ integrated_punch = <<IntegratedRow("A1", "C1", "Early", d, ts)>>
            /\ time_columns = n
       \/ \E k \in 0..MaxRows : \E t \in [1..k -> FewRows] :
            /\ integrated_punch = t
            /\ time_columns = 1
       \/ /\ integrated_punch \in YearRows
          /\ time_columns = 1
       \/ /\ integrated_punch \in DupRows
          /\ time_columns = 1

SpecEval == EvalInit /\ [][EvalNext]_vars

(* ---------------------------------------------------------------------- *)
(* The build, main of "01 資料整理"                                         *)
(* ---------------------------------------------------------------------- *)

keep_table(t) == t

(* Path(db_path).unlink(): a table of the removed file holds nothing       *)
unlink(t) == <<>>

AppendInstead(old, new) == old \o new

ReplaceInstead(old, new) == new

(* df.to_sql(.., if_exists='replace') and df.to_sql(.., if_exists='append') *)
to_sql_replace(old, new) == new

to_sql_append(old, new) == old \o new

NeverMissing == FALSE

(* the check of the punch workbook, after the database file was removed    *)
PunchFileMissing == ~file_path_1

(* pd.read_excel of a roster sheet: its rows, with the columns it has      *)
read_roster_sheet(sheet) ==
    [i \in 1..Len(sheet) |-> [c \in roster_columns |-> sheet[i][c]]]

(* the grouped query names shift_class.card_id, .name, .shift_class and    *)
(* .account: it raises "no such column" when one of them is missing        *)
QueryRaises == ~(RosterColumns \subseteq roster_columns)

(* the database file is removed; the punch workbook exists, the connection *)
(* is opened                                                               *)
MainStart ==
    /\ pc = "start"
    /\ ~PunchFileMissing
    /\ punch' = unlink(punch)
    /\ shift_class' = unlink(shift_class)
    /\ integrated_punch' = unlink(integrated_punch)
    /\ tables' = {}
    /\ time_columns' = 0
    /\ sheet_i' = 1
    /\ pc' = "punch"
    /\ UNCHANGED <<inputVars, runVars, evalVars, normVars>>

(* the database file is removed; the punch workbook is absent: return      *)
MainAbort ==
    /\ pc = "start"
    /\ PunchFileMissing
    /\ punch' = unlink(punch)
    /\ shift_class' = unlink(shift_class)
    /\ integrated_punch' = unlink(integrated_punch)
    /\ tables' = {}
    /\ time_columns' = 0
    /\ pc' = "aborted"
    /\ UNCHANGED <<inputVars, runVars, sheet_i, evalVars, normVars>>

(* clean_and_store_excel, one sheet: to_sql(if_exists='replace')           *)
LoadPunchSheet ==
    /\ pc = "punch"
    /\ sheet_i <= Len(punch_book)
    /\ punch' = to_sql_replace(punch, clean_sheet(punch_book[sheet_i]))
    /\ tables' = tables \cup {"punch"}
    /\ IF sheet_i = Len(punch_book)
       THEN pc' = "roster" /\ sheet_i' = 1
       ELSE pc' = pc /\ sheet_i' = sheet_i + 1
    /\ UNCHANGED <<inputVars, runVars, shift_class, integrated_punch,
                   time_columns, evalVars, normVars>>

(* pd.ExcelFile(file_path_2) of an absent roster workbook raises           *)
(* FileNotFoundError, which nothing in main catches                        *)
RosterAbsent ==
    /\ pc = "roster"
    /\ ~file_path_2
    /\ pc' = "raised"
    /\ UNCHANGED <<inputVars, runVars, sheet_i, punch, shift_class,
                   integrated_punch, time_columns, tables, evalVars, normVars>>

(* one roster sheet: to_sql(if_exists='append')                            *)
LoadRosterSheet ==
    /\ pc = "roster"
    /\ file_path_2
    /\ sheet_i <= Len(roster_book)
    /\ shift_class' = to_sql_append(shift_class, read_roster_sheet(roster_book[sheet_i]))
    /\ tables' = tables \cup {"shift_class"}
    /\ IF sheet_i = Len(roster_book)
       THEN pc' = "convert" /\ sheet_i' = 0
       ELSE pc' = pc /\ sheet_i' = sheet_i + 1
    /\ UNCHANGED <<inputVars, runVars, punch, integrated_punch,
                   time_columns, evalVars, normVars>>

Convert ==
    /\ pc = "convert"
    /\ punch' = convert_date_time_format(punch)
    /\ pc' = "integrate"
    /\ UNCHANGED <<inputVars, runVars, sheet_i, shift_class,
                   integrated_punch, time_columns, tables, evalVars, normVars>>

Integrate ==
    /\ pc = "integrate"
    /\ ~QueryRaises
    /\ \E t \in integrate_data(punch, shift_class) :
          /\ integrated_punch' = to_sql_replace(integrated_punch, t)
          /\ time_columns' = Max({Len(t[g].times) : g \in DOMAIN t})
    /\ tables' = tables \cup {"integrated_punch"}
    /\ pc' = "done"
    /\ UNCHANGED <<inputVars, runVars, sheet_i, punch, shift_class,
                   evalVars, normVars>>

(* pd.read_sql(query_integrate) raises; nothing in main catches it         *)
IntegrateRaises ==
    /\ pc = "integrate"
    /\ QueryRaises
    /\ pc' = "raised"
    /\ UNCHANGED <<inputVars, runVars, sheet_i, punch, shift_class,
                   integrated_punch, time_columns, tables, evalVars, normVars>>

BuildNext ==
    \/ MainStart
    \/ LoadPunchSheet
    \/ LoadRosterSheet
    \/ Convert
    \/ Integrate

(* Workbooks: one punch sheet of 1..MaxPunch data rows, one roster sheet   *)
(* of 0..MaxRoster rows.  A1 punches on a compact or a dashed ROC date, at *)
(* 08:00, at 22:30 or with an empty time cell, and is rostered in either   *)
(* class; A2 punches and is in no roster.                                  *)
MaxPunch == 2
MaxRoster == 2

PunchRows ==
    {[seq |-> "1", account |-> "A1", date |-> d, time |-> t] :
        d \in {"1130105", "113-01-05"}, t \in {"0800", "2230", NULL}}
    \cup {[seq |-> "1", account |-> "A2", date |-> "1130105", time |-> "2230"]}

RosterRows ==
    {[account |-> "A1", card_id |-> CardOf("A1"), name |-> NameOf("A1"),
      shift_class |-> k] : k \in {"Early", "Night"}}

(* a sheet where A1 punches twice on one day and once on the next, so     *)
(* that the second day's row has fewer times than the table has columns    *)
UnevenSheet ==
    <<[seq |-> "1", account |-> "A1", date |-> "1130105", time |-> "0800"],
      [seq |-> "1", account |-> "A1", date |-> "1130105", time |-> "2230"],
      [seq |-> "1", account |-> "A1", date |-> "1130106", time |-> "2230"]>>

Init ==
    /\ NormIdle
    /\ EvalIdle
    /\ \/ \E k \in 1..MaxPunch : \E sheet \in [1..k -> PunchRows] :
             punch_book = <<sheet>>
       \/ punch_book = <<UnevenSheet>>
    /\ \E k \in 0..MaxRoster : \E sheet \in [1..k -> RosterRows] :
          roster_book = <<sheet>>
    /\ PlainInputs
    /\ tables = {}
    /\ pc = "start"
    /\ sheet_i = 0
    /\ punch = <<>>
    /\ shift_class = <<>>
    /\ integrated_punch = <<>>
    /\ time_columns = 0

Next == BuildNext \/ EvalNext

Spec == Init /\ [][Next]_vars

(* ---------------------------------------------------------------------- *)
(* The build alone: workbooks of several sheets, absent workbooks, a       *)
(* roster without card_id and name, and runs that follow one another       *)
(* ---------------------------------------------------------------------- *)

MaxSheets == 2
MaxRuns == 2

PunchRow(a, d, t) == [seq |-> "1", account |-> a, date |-> d, time |-> t]

RosterRow(a, k) ==
    [account |-> a, card_id |-> CardOf(a), name |-> NameOf(a), shift_class |-> k]

(* a row of a sheet with a seq column, and of a sheet without one          *)
SeqRow(n, a, d, t) == [seq |-> n, account |-> a, date |-> d, time |-> t]

PlainRow(a, d, t) == [account |-> a, date |-> d, time |-> t]

(* a sheet without seq column where A1 punches twice and A2 once on one    *)
(* day; A2 on the next day with seq 1, 0, -1 and a text; a sheet whose     *)
(* first row has no sequence number                                        *)
PunchSheets ==
    { <<PlainRow("A1", "1130105", "0800"), PlainRow("A1", "1130105", "2230"),
        PlainRow("A2", "1130105", "2230")>>,
      <<PunchRow("A2", "1130106", "0900"), SeqRow("0", "A2", "1130106", "1000"),
        SeqRow("-1", "A2", "1130106", "1100"),
        SeqRow("x", "A2", "1130106", "1200")>>,
      <<[seq |-> NULL, account |-> "A1", date |-> "1130107", time |-> "0800"],
        PunchRow("A1", "1130107", "2300")>> }

(* A1 in Early; A1 and A3 in Night; a sheet with a header and no rows      *)
RosterSheets ==
    { <<RosterRow("A1", "Early")>>,
      <<RosterRow("A1", "Night"), RosterRow("A3", "Night")>>,
      <<>> }

Books(sheets, n) == UNION {[1..k -> sheets] : k \in 1..n}

(* the workbooks a later run may find in place of the first ones           *)
NextPunchBook == << <<PunchRow("A2", "1130106", "0900")>> >>

NextRosterBook == << <<RosterRow("A2", "Night")>> >>

BuildInit ==
    /\ NormIdle
    /\ EvalIdle
    /\ punch_book \in Books(PunchSheets, MaxSheets)
    /\ roster_book \in Books(RosterSheets, MaxSheets)
    /\ file_path_1 \in BOOLEAN
    /\ file_path_2 \in BOOLEAN
    /\ roster_columns \in {RosterColumns, {"account", "shift_class"}}
    /\ run = 1
    /\ prev = NoPrev
    /\ tables = {}
    /\ pc = "start"
    /\ sheet_i = 0
    /\ punch = <<>>
    /\ shift_class = <<>>
    /\ integrated_punch = <<>>
    /\ time_columns = 0

(* the script is started again: on the same workbooks, on other workbooks, *)
(* or after the punch workbook was removed                                 *)
Rerun ==
    /\ pc \in {"done", "aborted", "raised"}
    /\ epc = "idle"
    /\ run < MaxRuns
    /\ run' = run + 1
    /\ prev' = Snapshot(pc)
    /\ \/ UNCHANGED <<punch_book, roster_book, file_path_1>>
       \/ /\ punch_book' = NextPunchBook
          /\ roster_book' = NextRosterBook
          /\ UNCHANGED file_path_1
       \/ /\ file_path_1' = FALSE
          /\ UNCHANGED <<punch_book, roster_book>>
    /\ pc' = "start"
    /\ UNCHANGED <<file_path_2, roster_columns, sheet_i, punch, shift_class,
                   integrated_punch, time_columns, tables, evalVars, normVars>>

RunsNext ==
    \/ BuildNext
    \/ MainAbort
    \/ RosterAbsent
    \/ IntegrateRaises
    \/ Rerun

SpecBuild == BuildInit /\ [][RunsNext]_vars

(* ====================================================================== *)
(* Claims                                                                  *)
(* ====================================================================== *)

(* tokens of RowTimes and FewRows by the time of day they denote           *)
After2200 == {"22:00:01", "22:30:00", "220001"}
NotAfter2200 == {"08:00:00", "21:59:59", "22:00:00", "220000"}

(* C1 (SpecEval): a row that check_night_meal evaluated is eligible iff    *)
(* the time in the column it stopped at is strictly later than 22:00:00:   *)
(* 22:00:00 itself is not eligible, 22:00:01 is.                           *)
C1_StrictThreshold ==
    (epc # "error" /\ check.row # 0 /\ check.col # 0) =>
        LET t == data[check.row].times[check.col]
        IN  /\ t \in After2200 \cup NotAfter2200
            /\ check.night_meal_recorded <=> t \in After2200

C1_Boundary ==
    /\ epc # "error" /\ check.row # 0 /\ check.col # 0
    /\ data[check.row].times[check.col] = "22:00:00"
    /\ ~check.night_meal_recorded
    /\ night_meal_data = <<>>

(* C2 (SpecEval): the value check_night_meal compares is the non-null time *)
(* of the highest-numbered column; a row with only null times is not       *)
(* eligible and no record stems from it.                                   *)
C2_LastNonNull ==
    /\ check.row # 0 =>
          LET ts == data[check.row].times
          IN  IF \A i \in DOMAIN ts : ts[i] = NULL
              THEN check.col = 0 /\ ~check.night_meal_recorded
              ELSE /\ check.col \in DOMAIN ts
                   /\ ts[check.col] # NULL
                   /\ \A j \in DOMAIN ts : j > check.col => ts[j] = NULL
                   /\ check.last_time_str \in {ts[check.col], Colonize(ts[check.col])}
    /\ \A k \in DOMAIN night_meal_data :
          \E i \in DOMAIN data :
              /\ data[i].account = night_meal_data[k].account
              /\ data[i].date = night_meal_data[k].date
              /\ \E c \in DOMAIN data[i].times : data[i].times[c] # NULL

C2_Hole ==
    /\ check.row # 0
    /\ data[check.row].times = <<"22:30:00", NULL>>
    /\ check.col = 1
    /\ check.night_meal_recorded

(* C3 (Spec): no two records of one run over all shift classes share       *)
(* (account, date), an account rostered under two classes included.       *)
C3_OnePerAccountDate ==
    \A i, j \in DOMAIN all_data :
        i # j => <<all_data[i].account, all_data[i].date>>
                   # <<all_data[j].account, all_data[j].date>>

(* C4 (SpecEval): the records of one class hold each (account, date) at    *)
(* most once, whatever rows the class has.                                 *)
C4_OnePerClass ==
    \A i, j \in DOMAIN night_meal_data :
        i # j => <<night_meal_data[i].account, night_meal_data[i].date>>
                   # <<night_meal_data[j].account, night_meal_data[j].date>>

C4_Duplicate ==
    /\ epc = "rows" /\ ri > Len(data) /\ Len(data) >= 2
    /\ data[1].account = data[2].account /\ data[1].date = data[2].date
    /\ data[1].times = <<"22:30:00">> /\ data[2].times = <<"22:30:00">>
    /\ Len(night_meal_data) = 1

(* C5 (Spec): the end-to-end scenario.  The name and the class are written *)
(* "Wang" and "Early".                                                     *)
C5_Book(date) ==
    <<  <<[seq |-> "1", account |-> "A1", date |-> date, time |-> "0800"],
          [seq |-> "1", account |-> "A1", date |-> date, time |-> "2230"]>>  >>

C5_Roster ==
    <<  <<[account |-> "A1", card_id |-> "C1", name |-> "Wang",
           shift_class |-> "Early"]>>  >>

C5_Outcome ==
    /\ integrated_punch =
          <<[account |-> "A1", card_id |-> "C1", name |-> "Wang",
             shift_class |-> "Early", date |-> "2024-01-05",
             times |-> <<"08:00:00", "22:30:00">>]>>
    /\ Len(all_data) = 1
    /\ all_data[1].card_id = "C1" /\ all_data[1].account = "A1"
    /\ all_data[1].name = "Wang" /\ all_data[1].shift_class = "Early"
    /\ all_data[1].month = "01" /\ all_data[1].day = "05"

(* C5 as claimed: the punches carry the raw date "113-01-05".              *)
C5_DashedDate ==
    (punch_book = C5_Book("113-01-05") /\ roster_book = C5_Roster /\ epc = "done")
        => C5_Outcome

(* C5 amended: with the raw date "1130105" the run ends with the claimed   *)
(* integrated row and the one record (C1, A1, Wang, month 01, day 05).     *)
C5_CompactDate ==
    (punch_book = C5_Book("1130105") /\ roster_book = C5_Roster /\ epc = "done")
        => C5_Outcome

C5_Done ==
    /\ punch_book = C5_Book("1130105") /\ roster_book = C5_Roster /\ epc = "done"
    /\ Len(all_data) = 1

(* C6 (SpecNorm), as claimed: "<1-3 digits>-MM-DD" becomes the Gregorian   *)
(* date, every other shape is unchanged.                                   *)
RocDashed(d) ==
    /\ d # NULL
    /\ Cardinality(DashPos(d)) = 2
    /\ Len(DateParts(d).y) \in 1..3 /\ AllDigits(DateParts(d).y)
    /\ Len(DateParts(d).m) = 2 /\ AllDigits(DateParts(d).m)
    /\ Len(DateParts(d).d) = 2 /\ AllDigits(DateParts(d).d)

C6_DashedRoc ==
    (nfn = "store_date" /\ napp = 1) =>
        IF RocDashed(nraw)
        THEN ncur = ToString(DigitPrefix(DateParts(nraw).y, 1, 0) + 1911) \o "-"
                      \o DateParts(nraw).m \o "-" \o DateParts(nraw).d
        ELSE ncur = nraw

(* C6 (SpecNorm), amended: a 7-digit ROC date "YYYMMDD" becomes            *)
(* "<YYY+1911>-MM-DD"; any 7-character text is rewritten to end with       *)
(* "-" characters 4-5 "-" characters 6-7; every text whose length is not   *)
(* 7, "113-05-20" included, is unchanged.                                  *)
C6_CompactRoc ==
    (nfn = "store_date" /\ napp = 1) =>
        /\ (Len(nraw) = 7 /\ AllDigits(nraw)) =>
              /\ Len(ncur) = 10
              /\ AllDigits(SubSeq(ncur, 1, 4))
              /\ DigitPrefix(ncur, 1, 0) = DigitPrefix(SubSeq(nraw, 1, 3), 1, 0) + 1911
              /\ SubSeq(ncur, 5, 10) = "-" \o SubSeq(nraw, 4, 5) \o "-" \o SubSeq(nraw, 6, 7)
        /\ nraw = "1130520" => ncur = "2024-05-20"
        /\ Len(nraw) = 7 =>
              /\ Len(ncur) >= 7
              /\ SubSeq(ncur, Len(ncur) - 5, Len(ncur))
                    = "-" \o SubSeq(nraw, 4, 5) \o "-" \o SubSeq(nraw, 6, 7)
        /\ Len(nraw) # 7 => ncur = nraw

C6_Converted ==
    nfn = "store_date" /\ napp = 1 /\ nraw = "1130520" /\ ncur = "2024-05-20"

(* C7 (SpecNorm): the pass rewrites a stored 4-digit time HHMM to HH:MM:00 *)
C7_FourDigits ==
    (nfn = "store_time" /\ napp = 1 /\ nraw # NULL /\ Len(nraw) = 4 /\ AllDigits(nraw))
        => ncur = SubSeq(nraw, 1, 2) \o ":" \o SubSeq(nraw, 3, 4) \o ":00"

C7_Rewritten ==
    nfn = "store_time" /\ napp = 1 /\ nraw = "2200" /\ ncur = "22:00:00"

SixDigits(t) == t # NULL /\ Len(t) = 6 /\ AllDigits(t)

ColonForm(t) == SubSeq(t, 1, 2) \o ":" \o SubSeq(t, 3, 4) \o ":" \o SubSeq(t, 5, 6)

(* C8 (SpecNorm), as claimed: a 6-digit time is HH:MM:SS both as stored by *)
(* the pass and as compared by the evaluator.                              *)
C8_StoredAndCompared ==
    (napp = 1 /\ nfn \in {"store_time", "compare"} /\ SixDigits(nraw))
        => ncur = ColonForm(nraw)

(* C8 (SpecNorm), amended: the pass over punch leaves a 6-digit time as it *)
(* is; the value the evaluator compares and the value format_timestamp     *)
(* shows are HH:MM:SS.                                                     *)
C8_ComparedNotStored ==
    (napp = 1 /\ SixDigits(nraw)) =>
        /\ nfn = "store_time" => ncur = nraw
        /\ nfn \in {"compare", "format_timestamp", "format_timestamp_09"}
              => ncur = ColonForm(nraw)

C8_Compared ==
    napp = 1 /\ nfn = "compare" /\ nraw = "223000" /\ ncur = "22:30:00"

(* C9 (SpecNorm): a time that contains ':' is returned unchanged by the    *)
(* pass, by the formatters and by the evaluator's rewrite.                 *)
C9_ColonUnchanged ==
    (napp = 1 /\ nkind = "time" /\ nraw # NULL /\ HasColon(nraw)) => ncur = nraw

(* C10 (SpecNorm): applying a time conversion to its own result changes    *)
(* nothing.                                                                *)
C10_Idempotent ==
    (napp >= 2 /\ nkind = "time") => ncur = nprev

C10_Twice ==
    /\ napp = 2 /\ nfn = "store_time"
    /\ nraw = "2200" /\ nprev = "22:00:00" /\ ncur = "22:00:00"

(* the classes an account is rostered under; a null class when it has no  *)
(* roster row                                                              *)
ClassesOf(a) ==
    LET ks == {shift_class[i].shift_class :
                  i \in {j \in DOMAIN shift_class : shift_class[j].account = a}}
    IN  IF ks = {} THEN {NULL} ELSE ks

(* the (account, date, class) groups of the punches                        *)
PunchGroups ==
    UNION {{<<punch[i].account, punch[i].date, k>> :
               k \in ClassesOf(punch[i].account)} : i \in DOMAIN punch}

(* the punches of an account on a date                                     *)
PunchCount(a, d) ==
    Cardinality({i \in DOMAIN punch : punch[i].account = a /\ punch[i].date = d})

(* the number of leading non-null slots of a row's times                   *)
Filled(ts) == Cardinality({k \in DOMAIN ts : ts[k] # NULL})

(* C11 (SpecBuild): after integration the number of time columns is the    *)
(* largest punch count of a group; every row has that many slots, its      *)
(* punches first and nulls after them; there is one row per group.         *)
C11_PivotWidth ==
    pc = "done" =>
        /\ time_columns = Max({PunchCount(g[1], g[2]) : g \in PunchGroups})
        /\ Len(integrated_punch) = Cardinality(PunchGroups)
        /\ \A r \in DOMAIN integrated_punch :
              LET ts == integrated_punch[r].times
              IN  /\ Len(ts) = time_columns
                  /\ Filled(ts) = PunchCount(integrated_punch[r].account,
                                             integrated_punch[r].date)
                  /\ \A k \in DOMAIN ts : k > Filled(ts) => ts[k] = NULL

Unrostered(a) == \A j \in DOMAIN shift_class : shift_class[j].account # a

(* C12 (SpecBuild): after integration every punch is in a row of its       *)
(* account and date; when its account has no roster row, that row has a    *)
(* null card_id, name and shift_class.                                     *)
C12_LeftJoin ==
    pc = "done" =>
        \A i \in DOMAIN punch :
            \E r \in DOMAIN integrated_punch :
                LET row == integrated_punch[r]
                IN  /\ row.account = punch[i].account
                    /\ row.date = punch[i].date
                    /\ \E k \in DOMAIN row.times : row.times[k] = punch[i].time
                    /\ Unrostered(punch[i].account) =>
                          /\ row.card_id = NULL
                          /\ row.name = NULL
                          /\ row.shift_class = NULL

C12_Unmatched ==
    /\ pc = "done"
    /\ shift_class # <<>>
    /\ \E i \in DOMAIN punch :
          /\ punch[i].account = "A2" /\ Unrostered("A2")
          /\ \E r \in DOMAIN integrated_punch :
                /\ integrated_punch[r].account = "A2"
                /\ integrated_punch[r].shift_class = NULL
                /\ integrated_punch[r].times[1] = punch[i].time

SameBooksAgain ==
    /\ run >= 2
    /\ pc = "done"
    /\ prev.pc = "done"
    /\ prev.punch_book = punch_book
    /\ prev.roster_book = roster_book

(* C13 (SpecBuild): a full run on the workbooks of the full run before it  *)
(* leaves punch, shift_class and integrated_punch as that run left them.   *)
C13_Idempotent ==
    SameBooksAgain =>
        /\ punch = prev.punch
        /\ shift_class = prev.shift_class
        /\ integrated_punch = prev.integrated_punch

C13_SecondRun ==
    /\ SameBooksAgain
    /\ shift_class # <<>>
    /\ integrated_punch # <<>>

(* the rows of all sheets of a roster workbook, in sheet order             *)
RECURSIVE AllSheets(_, _)
AllSheets(book, n) ==
    IF n = 0 THEN <<>> ELSE AllSheets(book, n - 1) \o book[n]

LaterRunDone == run >= 2 /\ pc = "done" /\ prev.pc = "done"

(* C14 (SpecBuild), as claimed: the roster rows an earlier run stored are  *)
(* still in shift_class after a later run.                                 *)
C14_AppendOnly ==
    LaterRunDone =>
        \A j \in DOMAIN prev.shift_class :
            \E i \in DOMAIN shift_class : shift_class[i] = prev.shift_class[j]

(* C14 (SpecBuild), amended: every run starts from an empty database, so   *)
(* after a later run all three tables hold only that run's content:        *)
(* shift_class is the rows of that run's roster sheets, punch the          *)
(* converted rows of its last punch sheet.                                 *)
C14_ReplacedEachRun ==
    LaterRunDone =>
        /\ shift_class = AllSheets(roster_book, Len(roster_book))
        /\ punch = convert_date_time_format(
                       clean_sheet(punch_book[Len(punch_book)]))
        /\ integrated_punch \in integrate_data(punch, shift_class)

C14_OtherRoster ==
    /\ LaterRunDone
    /\ prev.shift_class # <<>>
    /\ prev.roster_book # NextRosterBook
    /\ roster_book = NextRosterBook
    /\ shift_class = <<RosterRow("A2", "Night")>>

(* C15 (SpecBuild): when the Punch Table Builder has finished, punch holds *)
(* exactly the cleaned rows of the last sheet of the punch workbook.       *)
C15_LastSheetOnly ==
    pc \in {"roster", "convert"} =>
        punch = clean_sheet(punch_book[Len(punch_book)])

C15_TwoSheets ==
    /\ pc = "roster"
    /\ Len(punch_book) = 2
    /\ clean_sheet(punch_book[1]) # <<>>
    /\ \A i \in DOMAIN punch_book[1] : \A j \in DOMAIN punch :
          punch_book[1][i].account # punch[j].account
    /\ punch = clean_sheet(punch_book[2])

(* C16 (SpecBuild): when the Roster Loader has finished, shift_class is    *)
(* the rows of all roster sheets in sheet order, each as the sheet has it, *)
(* repeated rows included.                                                 *)
C16_AllSheetsAppended ==
    pc = "convert" =>
        LET rows == AllSheets(roster_book, Len(roster_book))
        IN  /\ Len(shift_class) = Len(rows)
            /\ \A i \in DOMAIN rows : \A c \in roster_columns :
                  shift_class[i][c] = rows[i][c]
            /\ roster_columns = RosterColumns => shift_class = rows

C16_Repeated ==
    /\ pc = "convert"
    /\ roster_book = << <<RosterRow("A1", "Early")>>, <<RosterRow("A1", "Early")>> >>
    /\ shift_class = <<RosterRow("A1", "Early"), RosterRow("A1", "Early")>>

(* C17 (SpecBuild): a run that finds no punch workbook is aborted before   *)
(* any loading: the database holds no punch, shift_class or                *)
(* integrated_punch table.                                                 *)
C17_AbortedBeforeLoading ==
    (~file_path_1 /\ pc # "start") =>
        /\ pc = "aborted"
        /\ tables = {}
        /\ punch = <<>> /\ shift_class = <<>> /\ integrated_punch = <<>>

C17_Aborted ==
    /\ ~file_path_1
    /\ pc = "aborted"
    /\ run = 2
    /\ prev.pc = "done"
    /\ tables = {}

(* C18 (SpecBuild): with the punch workbook present and the roster         *)
(* workbook absent the run is not aborted by an exception.                 *)
C18_RosterAbsenceTolerated ==
    (file_path_1 /\ ~file_path_2) => pc # "raised"

(* C19 (SpecBuild): with a roster that has no card_id and no name column   *)
(* the integration does not fail.                                          *)
C19_MissingColumnsTolerated ==
    (file_path_1 /\ file_path_2 /\ roster_columns = {"account", "shift_class"})
        => pc # "raised"

(* C20 (SpecEval): no date or time token of an integrated row makes the    *)
(* evaluation end with an exception.                                       *)
C20_NeverRaises == epc # "error"

(* the records of a class evaluated alone: its rows from the i-th on,      *)
(* after the (account, date) pairs in seen were emitted                    *)
RECURSIVE AloneFrom(_, _, _, _)
AloneFrom(rows, i, seen, class_name) ==
    IF i > Len(rows) THEN <<>>
    ELSE IF /\ ~DateSkipped(rows[i])
            /\ check_night_meal(rows[i].times, night_meal_threshold)
            /\ <<rows[i].account, rows[i].date>> \notin seen
         THEN <<Record(rows[i], class_name)>>
                  \o AloneFrom(rows, i + 1,
                               seen \cup {<<rows[i].account, rows[i].date>>},
                               class_name)
         ELSE AloneFrom(rows, i + 1, seen, class_name)

C22_CountMatchesList ==
    epc = "done" =>
        \A m \in MonthlySummary(all_data) :
            /\ m.day_count = Len(m.day_list)
            /\ \A i, j \in DOMAIN m.day_list :
                  i # j => m.day_list[i] # m.day_list[j]

(* the last non-null time of a row is later than 22:00:00                 *)
LastAfter2200(ts) ==
    \E c \in DOMAIN ts :
        /\ ts[c] \in After2200
        /\ \A j \in DOMAIN ts : j > c => ts[j] = NULL

(* the eligible rows of data for an account and a date                     *)
EligibleAt(a, d) ==
    {i \in DOMAIN data :
        /\ data[i].account = a /\ data[i].date = d
        /\ ~DateSkipped(data[i])
        /\ LastAfter2200(data[i].times)}

RecordsAt(a, d) ==
    {k \in DOMAIN night_meal_data :
        night_meal_data[k].account = a /\ night_meal_data[k].date = d}

(* C23 (SpecEval): the rows of a class are traversed by ascending card_id; *)
(* when the class is done, an (account, date) with eligible rows has one   *)
(* record, that of its first eligible row, and one without has none.       *)
C23_FirstEligibleWins ==
    (epc = "rows" /\ ri > Len(data)) =>
        /\ \A i, j \in DOMAIN data :
              (i < j /\ data[i].card_id = "C2") => data[j].card_id # "C1"
        /\ \A i \in DOMAIN data :
              LET E == EligibleAt(data[i].account, data[i].date)
                  R == RecordsAt(data[i].account, data[i].date)
              IN  IF E = {} THEN R = {}
                  ELSE /\ Cardinality(R) = 1
                       /\ \A k \in R : \A f \in E :
                             (\A g \in E : f <= g) =>
                                 /\ night_meal_data[k].card_id = data[f].card_id
                                 /\ night_meal_data[k].name = data[f].name

C23_LaterRowWins ==
    /\ epc = "rows" /\ ri > Len(data)
    /\ Len(data) = 2
    /\ data[1].card_id = "C1" /\ data[1].times = <<"08:00:00">>
    /\ data[2].card_id = "C2" /\ data[2].times = <<"22:30:00">>
    /\ data[1].account = data[2].account /\ data[1].date = data[2].date
    /\ Len(night_meal_data) = 1
    /\ night_meal_data[1].card_id = "C2"

(* the times of the punches of an account on a date, in punch-row order   *)
PunchTimes(a, d) ==
    LET Hit(p) == p.account = a /\ p.date = d
        S == SelectSeq(punch, Hit)
    IN  [i \in DOMAIN S |-> S[i].time]

NonNull(ts) ==
    LET Set(t) == t # NULL
    IN  SelectSeq(ts, Set)

(* C24 (SpecBuild): after integration the non-null times of a row are the  *)
(* times of the account's punches on that date, in punch-row order, each   *)
(* once.                                                                   *)
C24_TimesOncePerPunch ==
    pc = "done" =>
        \A r \in DOMAIN integrated_punch :
            NonNull(integrated_punch[r].times) =
                PunchTimes(integrated_punch[r].account, integrated_punch[r].date)

(* the sheet whose rows the punch table holds once the loop has ended      *)
LastPunchSheet == punch_book[Len(punch_book)]

(* the row of a sheet is in the punch table                                *)
Kept(r) ==
    \E i \in DOMAIN punch :
        /\ punch[i].account = r.account
        /\ punch[i].date = StrOf(r.date)
        /\ punch[i].time = StrOf(r.time)
        /\ ("seq" \in DOMAIN r) => punch[i].seq = r.seq

NumberTexts == {"1", "0", "-1"}

PositiveTexts == {"1"}

(* C25 (SpecBuild): when the punch loop has ended, a row of the last sheet *)
(* is in punch iff the sheet has no seq column or the row's seq parses as  *)
(* a number, zero and negative numbers included.                           *)
C25_NumericKept ==
    pc = "roster" =>
        \A i \in DOMAIN LastPunchSheet :
            LET r == LastPunchSheet[i]
            IN  Kept(r) <=> (("seq" \in DOMAIN r) => r.seq \in NumberTexts)

(* C25 as stated: a row of a sheet with a seq column is kept iff its seq   *)
(* parses as a positive number.                                            *)
C25_PositiveKept ==
    pc = "roster" =>
        \A i \in DOMAIN LastPunchSheet :
            LET r == LastPunchSheet[i]
            IN  Kept(r) <=> (("seq" \in DOMAIN r) => r.seq \in PositiveTexts)

C25_ZeroKept ==
    /\ pc = "roster"
    /\ \E i \in DOMAIN LastPunchSheet :
          /\ "seq" \in DOMAIN LastPunchSheet[i]
          /\ LastPunchSheet[i].seq = "x"
          /\ ~Kept(LastPunchSheet[i])
    /\ \E i \in DOMAIN punch : punch[i].seq = "0"
    /\ \E i \in DOMAIN punch : punch[i].seq = "-1"
    /\ Len(punch) = 3

(* C26 (SpecBuild): in every run, once integration is reached the punch   *)
(* table has been normalized, and after it no integrated row carries a     *)
(* 7-character date or a 4-character time, nor any value the pass would    *)
(* still change.                                                           *)
C26_NormalizedBeforeIntegration ==
    /\ pc \in {"integrate", "done"} =>
          \A i \in DOMAIN punch :
              /\ Len(punch[i].date) # 7
              /\ Len(punch[i].time) # 4
    /\ pc = "done" =>
          \A r \in DOMAIN integrated_punch :
              /\ Len(integrated_punch[r].date) # 7
              /\ ConvertDate(integrated_punch[r].date) = integrated_punch[r].date
              /\ \A k \in DOMAIN integrated_punch[r].times :
                    LET t == integrated_punch[r].times[k]
                    IN  t # NULL => Len(t) # 4 /\ ConvertTime(t) = t

C26_RocRowIntegrated ==
    /\ pc = "done"
    /\ run = MaxRuns
    /\ \E i \in DOMAIN LastPunchSheet :
          /\ LastPunchSheet[i].date = "1130107"
          /\ LastPunchSheet[i].time = "2300"
    /\ \E r \in DOMAIN integrated_punch :
          /\ integrated_punch[r].date = "2024-01-07"
          /\ integrated_punch[r].times[1] = "23:00:00"

(* C27 (SpecBuild): after integration no two rows of integrated_punch     *)
(* share (account, date, shift_class), whatever rows the roster repeats.   *)
C27_OneRowPerGroup ==
    pc = "done" =>
        \A r, q \in DOMAIN integrated_punch :
            r # q =>
                <<integrated_punch[r].account, integrated_punch[r].date,
                  integrated_punch[r].shift_class>>
                # <<integrated_punch[q].account, integrated_punch[q].date,
                    integrated_punch[q].shift_class>>

C27_RepeatedRosterRow ==
    /\ pc = "done"
    /\ \E i, j \in DOMAIN shift_class : i # j /\ shift_class[i] = shift_class[j]
    /\ \E i \in DOMAIN punch : punch[i].account = shift_class[1].account
    /\ Cardinality({r \in DOMAIN integrated_punch :
                       /\ integrated_punch[r].account = "A1"
                       /\ integrated_punch[r].shift_class = "Early"}) = 1

(* C28 (Spec): in every integrated row a null time slot is followed by    *)
(* null slots only, and the evaluator's scan of a row stops at the last    *)
(* element of the row's time sequence.                                     *)
C28_NonNullPrefix ==
    /\ pc = "done" =>
          \A r \in DOMAIN integrated_punch :
              LET ts == integrated_punch[r].times
              IN  \A k \in DOMAIN ts :
                      ts[k] = NULL => \A j \in DOMAIN ts : j > k => ts[j] = NULL
    /\ (epc = "rows" /\ check.row # 0) =>
          LET ts == data[check.row].times
          IN  /\ check.col = Len(NonNull(ts))
              /\ check.col # 0 => ts[check.col] = NonNull(ts)[Len(NonNull(ts))]

C28_PaddedRowScanned ==
    /\ epc = "rows" /\ check.row # 0
    /\ data[check.row].times = <<"22:30:00", NULL>>
    /\ check.col = 1
    /\ check.night_meal_recorded

(* the integrated rows of null class                                       *)
NullClassRows == {r \in DOMAIN integrated_punch : integrated_punch[r].shift_class = NULL}

FromNullClassRow(rec) ==
    \/ rec.shift_class = NULL
    \/ \E r \in NullClassRows :
          /\ integrated_punch[r].account = rec.account
          /\ integrated_punch[r].date = rec.date

(* C29 (Spec): the rule of the null class selects no row, and no record    *)
(* of a run stems from an integrated row of null class.                    *)
C29_NullClassSilent ==
    /\ (epc = "rows" /\ rules_dict[ci] = NULL) => data = <<>>
    /\ \A k \in DOMAIN night_meal_data : ~FromNullClassRow(night_meal_data[k])
    /\ \A k \in DOMAIN all_data : ~FromNullClassRow(all_data[k])

C29_LateUnrosteredPunch ==
    /\ epc = "done"
    /\ \E c \in DOMAIN rules_dict : rules_dict[c] = NULL
    /\ \E r \in NullClassRows : LastAfter2200(integrated_punch[r].times)
    /\ all_data # <<>>

(* C30 (SpecBuild): a run aborted for a missing punch workbook leaves     *)
(* none of the tables and none of the rows the previous run had stored.    *)
C30_NothingSurvivesAbort ==
    pc = "aborted" =>
        /\ prev.tables \cap tables = {}
        /\ \A i \in DOMAIN prev.punch :
              \A j \in DOMAIN punch : punch[j] # prev.punch[i]
        /\ \A i \in DOMAIN prev.shift_class :
              \A j \in DOMAIN shift_class : shift_class[j] # prev.shift_class[i]
        /\ \A i \in DOMAIN prev.integrated_punch :
              \A j \in DOMAIN integrated_punch :
                  integrated_punch[j] # prev.integrated_punch[i]
        /\ Len(punch) + Len(shift_class) + Len(integrated_punch) = 0

C30_AbortAfterFullRun ==
    /\ pc = "aborted"
    /\ prev.pc = "done"
    /\ prev.tables = AllTables
    /\ prev.punch # <<>>
    /\ prev.shift_class # <<>>
    /\ prev.integrated_punch # <<>>
    /\ integrated_punch = <<>>

====
